---- MODULE Spec2Model ----
(***************************************************************************)
(* Model of the useCandlestickChart hook                                   *)
(* (src/app/tracker/components/chart/useCandlestickChart.ts).              *)
(*                                                                         *)
(* The hook owns four refs of engine bookkeeping (chartRef, seriesRef,     *)
(* prevSymbolRef, newDayTimestamps), three pieces of React                 *)
(* state (hasData, crosshairTime, crosshairX), a mount effect with a       *)
(* cleanup, a data effect and the resetView command.  The rendering        *)
(* engine (lightweight-charts) and the ResizeObserver are modelled as the  *)
(* objects the hook talks to: each engine instance is a record, and every  *)
(* call the hook makes on it is recorded in `calls`.                       *)
(***************************************************************************)
EXTENDS Integers, Sequences, FiniteSets, TLC

\* ---------------------------------------------------------------- bounds
MaxLen == 3          \* longest candle sequence supplied to a pass
MaxEngines == 2      \* engine instances created over one behaviour

\* ------------------------------------------------------------- constants
ChartHeight == 300
SecondsPerDay == 86400

\* ---------------------------------------------------- optional values
None == <<>>
Some(x) == <<x>>

\* ------------------------------------------------------------ inputs
Times == {1700000000, 1700003600, 1700086400}
Prices == {10}
Symbols == {"AAPL", "MSFT"}
Widths == {640, 800}
PointerXs == {0}
PointerTimes == {1700003600}
UtcOffsets == {0, -18000}      \* the host's local time zone, seconds east of UTC

\* interface Candle { time, open, high, low, close }
CandleAt(t, p) == [time |-> t, open |-> p, high |-> p + 2, low |-> p - 1, close |-> p + 1]

CandlePool == {CandleAt(t, p) : t \in Times, p \in Prices}

Ascending(cs) == \A i \in 1..(Len(cs) - 1) : cs[i].time < cs[i + 1].time

CandleSeqs == UNION {{cs \in [1..n -> CandlePool] : Ascending(cs)} : n \in 0..MaxLen}

MouseEventParams ==
    [point : {None} \cup {Some(x) : x \in PointerXs},
     time  : {[type |-> "undefined", value |-> 0], [type |-> "string", value |-> 0]}
             \cup {[type |-> "number", value |-> t] : t \in PointerTimes}]

\* ------------------------------------------------------------- state
VARIABLES
    phase,             \* "idle": effects not set up; "active": effects set up;
                       \* "failed": the mount effect threw; "discarded": React has torn
                       \* down the instance whose mount effect threw
    containerRef,      \* containerRef.current: None or Some(clientWidth)
    engines,           \* every engine instance ever created, by id
    chartRef,          \* chartRef.current: None or Some(engine id)
    seriesRef,         \* seriesRef.current: None or Some(engine id owning the series)
    prevSymbolRef,     \* prevSymbolRef.current: None or Some(symbol)
    newDayTimestamps,  \* newDayTimestamps.current: set of times
    hasData,
    crosshairTime,     \* None or Some(label)
    crosshairX,        \* None or Some(x)
    observer,          \* attached ResizeObserver: None or Some(engine id its callback captured)
    cleanup,           \* registered mount-effect cleanup: None or Some(engine id it captured)
    calls,             \* observation: engine/observer calls made by the handler that ran last
    last,              \* observation: the last reconciliation pass and its relation to the one before
    lastOp,            \* observation: "unmount" / "resetView" when that handler ran last, else "other"
    tick               \* observation: the tick label just returned to the engine, if any

vars == <<phase, containerRef, engines, chartRef, seriesRef, prevSymbolRef,
          newDayTimestamps, hasData, crosshairTime, crosshairX, observer,
          cleanup, calls, last, lastOp, tick>>

hookRefs == <<chartRef, seriesRef, prevSymbolRef, newDayTimestamps>>
hookState == <<hasData, crosshairTime, crosshairX>>

Call(op, id) == [op |-> op, id |-> id]

\* ------------------------------------------------- rendering engine
\* createChart(container, { width: clientWidth, height: 300, ... }) followed by
\* addCandlestickSeries and subscribeCrosshairMove on the new instance.
NewEngine(width) ==
    [alive |-> TRUE, width |-> width, height |-> ChartHeight, data |-> <<>>,
     range |-> None, autoScale |-> TRUE, subscribed |-> FALSE,
     removed |-> 0, misuse |-> FALSE]

\* CandlestickData[] built by candles.map(...)
Formatted(candles) ==
    [i \in 1..Len(candles) |->
        [time  |-> candles[i].time,
         open  |-> candles[i].open,
         high  |-> candles[i].high,
         low   |-> candles[i].low,
         close |-> candles[i].close]]

FitRange(data) ==
    IF data = <<>> THEN None ELSE Some(<<data[1].time, data[Len(data)].time>>)

\* chart.subscribeCrosshairMove(handler)
EngSubscribe(e) ==
    IF e.alive THEN [e EXCEPT !.subscribed = TRUE] ELSE [e EXCEPT !.misuse = TRUE]

\* series.setData(formatted): replaces the series content
EngSetData(e, data) ==
    IF e.alive THEN [e EXCEPT !.data = data] ELSE [e EXCEPT !.misuse = TRUE]

\* chart.timeScale().fitContent()
EngFitContent(e) ==
    IF e.alive THEN [e EXCEPT !.range = FitRange(e.data)] ELSE [e EXCEPT !.misuse = TRUE]

\* chart.priceScale('right').applyOptions({ autoScale: true })
EngAutoScale(e) ==
    IF e.alive THEN [e EXCEPT !.autoScale = TRUE] ELSE [e EXCEPT !.misuse = TRUE]

\* chart.applyOptions({ width })
EngApplyWidthSquare(e, w) ==
    IF e.alive THEN [e EXCEPT !.width = w, !.height = w] ELSE [e EXCEPT !.misuse = TRUE]
EngApplyWidth(e, w) ==
    IF e.alive THEN [e EXCEPT !.width = w] ELSE [e EXCEPT !.misuse = TRUE]

\* chart.remove(): disposes the instance; its element leaves the container,
\* it displays nothing any more and the subscriptions it holds end with it
EngRemove(e) ==
    IF e.alive
    THEN [e EXCEPT !.alive = FALSE, !.width = 0, !.data = <<>>, !.range = None,
                   !.autoScale = TRUE, !.subscribed = FALSE, !.removed = @ + 1]
    ELSE [e EXCEPT !.misuse = TRUE, !.removed = @ + 1]

\* fitContent + autoscale on one engine: the body shared by the automatic
\* reset of the data effect and by resetView
EngResetFitOnly(e) == EngFitContent(e)
EngReset(e) == EngAutoScale(EngFitContent(e))

ResetCalls(id) == <<Call("fitContent", id), Call("priceScale.applyOptions", id)>>

Viewport(e) == <<e.range, e.autoScale>>

\* ------------------------------------------------- day boundaries
\* new Date(c.time * 1000).toISOString().split('T')[0]: the UTC calendar day
DateStrLocal(t) == (t + 3600) \div SecondsPerDay
DateStr(t) == t \div SecondsPerDay

\* newDayTimestamps.current.clear()
ClearedDaysKept == newDayTimestamps
ClearedDays == {}

\* the forEach of the data effect, from index i on
DetectNewDaysEveryCandle(candles, i, lastDate, acc) ==
    acc \cup {candles[j].time : j \in i..Len(candles)}
RECURSIVE DetectNewDays(_, _, _, _)
DetectNewDays(candles, i, lastDate, acc) ==
    IF i > Len(candles) THEN acc
    ELSE IF Some(DateStr(candles[i].time)) # lastDate
         THEN DetectNewDays(candles, i + 1, Some(DateStr(candles[i].time)),
                            acc \cup {candles[i].time})
         ELSE DetectNewDays(candles, i + 1, lastDate, acc)

\* ------------------------------------------------- tick labels
\* date.getMonth() / date.getDate() of the local day number `days`
\* (days since 1970-01-01, proleptic Gregorian calendar)
CivilFromDays(days) ==
    LET z   == days + 719468
        era == z \div 146097
        doe == z - era * 146097
        yoe == (doe - doe \div 1460 + doe \div 36524 - doe \div 146096) \div 365
        doy == doe - (365 * yoe + yoe \div 4 - yoe \div 100)
        mp  == (5 * doy + 2) \div 153
    IN  [day   |-> doy - (153 * mp + 2) \div 5 + 1,
         month |-> IF mp < 10 THEN mp + 3 ELSE mp - 9]

\* date.toLocaleString('en-US', { month: 'short' })
MonthShort(m) ==
    <<"Jan", "Feb", "Mar", "Apr", "May", "Jun",
      "Jul", "Aug", "Sep", "Oct", "Nov", "Dec">>[m]

\* newDayTimestamps.current.has(t)
TickIsBoundaryInverted(t) == t \notin newDayTimestamps
TickIsBoundary(t) == t \in newDayTimestamps

\* tickMarkFormatter(time) on a host whose local time is UTC + offset:
\* "Mon D" on a recorded day boundary, else "H:MM AM/PM"
tickMarkFormatter(t, offset) ==
    LET local   == t + offset
        date    == CivilFromDays(local \div SecondsPerDay)
        hours   == (local % SecondsPerDay) \div 3600
        minutes == (local % 3600) \div 60
    IN  IF TickIsBoundary(t)
        THEN [kind |-> "monthDay", month |-> MonthShort(date.month), day |-> date.day,
              hour |-> 0, minute |-> 0, ampm |-> ""]
        ELSE [kind |-> "time", month |-> "", day |-> 0,
              hour |-> IF hours % 12 = 0 THEN 12 ELSE hours % 12,
              minute |-> minutes,
              ampm |-> IF hours >= 12 THEN "PM" ELSE "AM"]

\* formatCrosshairTime(time): a display string determined by the time
formatCrosshairTime(t) == [label |-> "crosshair", of |-> t]

\* ------------------------------------------------------------- Init
NoPass ==
    [ran |-> FALSE, symbol |-> None, candles |-> <<>>, pushed |-> FALSE,
     prevPushed |-> FALSE, symDiff |-> FALSE, dataDiff |-> FALSE]

Init ==
    /\ phase = "idle"
    /\ containerRef \in {None} \cup {Some(w) : w \in Widths}
    /\ engines = <<>>
    /\ chartRef = None
    /\ seriesRef = None
    /\ prevSymbolRef = None
    /\ newDayTimestamps = {}
    /\ hasData = FALSE
    /\ crosshairTime = None
    /\ crosshairX = None
    /\ observer = None
    /\ cleanup = None
    /\ calls = <<>>
    /\ last = NoPass
    /\ lastOp = "other"
    /\ tick = None

\* ------------------------------------------------- mount effect
\* if (!containerRef.current) return;
MountSkippedNever == FALSE
MountSkipped == containerRef = None

\* containerRef.current.clientWidth
ClientWidth == IF containerRef = None THEN 0 ELSE containerRef[1]

\* the calls of the setup, in program order (lines 39, 95, 97, 110, 116)
SetupOrder ==
    <<"createChart", "addCandlestickSeries", "subscribeCrosshairMove",
      "ResizeObserver", "observe">>

\* the mount effect: early return, or createChart ... return cleanup
Mount ==
    /\ lastOp' = "other"
    /\ tick' = None
    /\ phase = "idle"
    /\ phase' = "active"
    /\ IF MountSkipped
       THEN /\ calls' = <<>>
            /\ UNCHANGED <<engines, chartRef, seriesRef, observer, cleanup>>
       ELSE /\ Len(engines) < MaxEngines
            /\ LET id == Len(engines) + 1 IN
               /\ engines' = Append(engines, EngSubscribe(NewEngine(ClientWidth)))
               /\ chartRef' = Some(id)
               /\ seriesRef' = Some(id)
               /\ observer' = Some(id)
               /\ cleanup' = Some(id)
               /\ calls' = [i \in DOMAIN SetupOrder |-> Call(SetupOrder[i], id)]
    /\ UNCHANGED <<containerRef, prevSymbolRef, newDayTimestamps, hookState, last>>

\* the engine instance a setup that threw at call number k leaves behind:
\* the handler is subscribed once line 97 has returned
EngineLeftBy(k) ==
    IF k > 3 THEN EngSubscribe(NewEngine(ClientWidth)) ELSE NewEngine(ClientWidth)

\* chartRef.current / seriesRef.current are assigned (lines 107-108) once
\* subscribeCrosshairMove has returned
RefsAssignedBefore(k) == k > 3

\* the mount effect when call number k of the setup throws: the effect is
\* left at that call, so nothing after it runs and no cleanup is returned.
\* React then tears the component down and never sets its effects up again.
MountFails(k) ==
    /\ lastOp' = "other"
    /\ tick' = None
    /\ phase = "idle"
    /\ ~MountSkipped
    /\ phase' = "failed"
    /\ IF k = 1
       THEN /\ calls' = <<Call(SetupOrder[1], 0), Call("throws", 0)>>
            /\ UNCHANGED <<engines, chartRef, seriesRef>>
       ELSE /\ Len(engines) < MaxEngines
            /\ LET id == Len(engines) + 1 IN
               /\ engines' = Append(engines, EngineLeftBy(k))
               /\ IF RefsAssignedBefore(k)
                  THEN chartRef' = Some(id) /\ seriesRef' = Some(id)
                  ELSE UNCHANGED <<chartRef, seriesRef>>
               /\ calls' = [i \in 1..k |-> Call(SetupOrder[i], id)] \o <<Call("throws", id)>>
    /\ UNCHANGED <<containerRef, prevSymbolRef, newDayTimestamps, hookState, observer,
                   cleanup, last>>

\* resizeObserver.disconnect()
CleanupObserverKept(obs) == obs
CleanupObserver(obs) == None

\* chart.remove() on the chart the cleanup closure captured
CleanupEngines(engs, id) == [engs EXCEPT ![id] = EngRemove(@)]

UnmountAlwaysTearsDown ==
    /\ lastOp' = "unmount"
    /\ tick' = None
    /\ phase \in {"active", "failed"}
    /\ phase' = (IF phase = "failed" THEN "discarded" ELSE "idle")
    /\ observer' = None
    /\ chartRef' = None
    /\ seriesRef' = None
    /\ IF cleanup = None
       THEN /\ calls' = <<Call("disconnect", 0)>>
            /\ UNCHANGED engines
       ELSE /\ engines' = CleanupEngines(engines, cleanup[1])
            /\ calls' = <<Call("disconnect", cleanup[1]), Call("remove", cleanup[1])>>
    /\ cleanup' = None
    /\ UNCHANGED <<containerRef, prevSymbolRef, newDayTimestamps, hookState, last>>

\* the cleanup returned by the mount effect; nothing is registered when the
\* effect returned early or threw
Unmount ==
    /\ lastOp' = "unmount"
    /\ tick' = None
    /\ phase \in {"active", "failed"}
    /\ phase' = (IF phase = "failed" THEN "discarded" ELSE "idle")
    /\ IF cleanup = None
       THEN /\ calls' = <<>>
            /\ UNCHANGED <<engines, chartRef, seriesRef, observer>>
       ELSE /\ observer' = CleanupObserver(observer)
            /\ engines' = CleanupEngines(engines, cleanup[1])
            /\ chartRef' = None
            /\ seriesRef' = None
            /\ calls' = <<Call("disconnect", cleanup[1]), Call("remove", cleanup[1])>>
    /\ cleanup' = None
    /\ UNCHANGED <<containerRef, prevSymbolRef, newDayTimestamps, hookState, last>>

\* ------------------------------------------------- data effect
\* !( !seriesRef.current || !chartRef.current || !candles?.length )
ShouldPushIgnoringEmpty(candles) == seriesRef # None /\ chartRef # None
ShouldPush(candles) == seriesRef # None /\ chartRef # None /\ Len(candles) # 0

\* prevSymbolRef.current !== symbol
SymbolChangedInverted(symbol) == prevSymbolRef = Some(symbol)
SymbolChangedAlways(symbol) == TRUE
SymbolChanged(symbol) == prevSymbolRef # Some(symbol)

PassInfo(candles, symbol, pushed) ==
    [ran |-> TRUE, symbol |-> Some(symbol), candles |-> candles, pushed |-> pushed,
     prevPushed |-> last.pushed,
     symDiff |-> last.ran /\ last.symbol # Some(symbol),
     dataDiff |-> last.ran /\ last.candles # candles]

Reconcile(candles, symbol) ==
    /\ lastOp' = "other"
    /\ tick' = None
    /\ phase = "active"
    /\ IF ~ShouldPush(candles)
       THEN /\ hasData' = FALSE
            /\ calls' = <<>>
            /\ UNCHANGED <<engines, prevSymbolRef, newDayTimestamps>>
       ELSE LET sid == seriesRef[1]
                cid == chartRef[1]
                pushedTo == [engines EXCEPT ![sid] = EngSetData(@, Formatted(candles))]
            IN  /\ newDayTimestamps' = DetectNewDays(candles, 1, None, ClearedDays)
                /\ hasData' = TRUE
                /\ IF SymbolChanged(symbol)
                   THEN /\ engines' = [pushedTo EXCEPT ![cid] = EngReset(@)]
                        /\ calls' = <<Call("setData", sid)>> \o ResetCalls(cid)
                   ELSE /\ engines' = pushedTo
                        /\ calls' = <<Call("setData", sid)>>
                /\ prevSymbolRef' = Some(symbol)
    /\ last' = PassInfo(candles, symbol, ShouldPush(candles))
    /\ UNCHANGED <<phase, containerRef, chartRef, seriesRef, crosshairTime, crosshairX,
                   observer, cleanup>>

\* ------------------------------------------------- resetView
ResetViewForgetsSymbol ==
    /\ lastOp' = "resetView"
    /\ tick' = None
    /\ prevSymbolRef' = None
    /\ IF chartRef = None
       THEN /\ calls' = <<>>
            /\ UNCHANGED engines
       ELSE /\ engines' = [engines EXCEPT ![chartRef[1]] = EngReset(@)]
            /\ calls' = ResetCalls(chartRef[1])
    /\ UNCHANGED <<phase, containerRef, chartRef, seriesRef, newDayTimestamps, hookState,
                   observer, cleanup, last>>

ResetView ==
    /\ lastOp' = "resetView"
    /\ tick' = None
    /\ IF chartRef = None
       THEN /\ calls' = <<>>
            /\ UNCHANGED engines
       ELSE /\ engines' = [engines EXCEPT ![chartRef[1]] = EngReset(@)]
            /\ calls' = ResetCalls(chartRef[1])
    /\ UNCHANGED <<phase, containerRef, hookRefs, hookState, observer, cleanup, last>>

\* ------------------------------------------------- ResizeObserver callback
\* delivered only while the observer is attached; acts on the chart it captured
Resize ==
    /\ lastOp' = "other"
    /\ tick' = None
    /\ observer # None
    /\ IF containerRef # None
       THEN /\ engines' = [engines EXCEPT ![observer[1]] = EngApplyWidth(@, containerRef[1])]
            /\ calls' = <<Call("applyOptions", observer[1])>>
       ELSE /\ calls' = <<>>
            /\ UNCHANGED engines
    /\ UNCHANGED <<phase, containerRef, hookRefs, hookState, observer, cleanup, last>>

\* ------------------------------------------------- crosshair handler
\* !param.point || typeof param.time !== 'number'
CrosshairClearedPointOnly(param) == param.point = None
CrosshairCleared(param) == param.point = None \/ param.time.type # "number"

\* a notification to the handler subscribed at mount, from an engine it is
\* still subscribed to; the hook never unsubscribes the handler itself, the
\* subscription ends when the engine is removed
PointerMove(param) ==
    /\ lastOp' = "other"
    /\ tick' = None
    /\ {id \in DOMAIN engines : engines[id].subscribed} # {}
    /\ calls' = <<>>
    /\ IF CrosshairCleared(param)
       THEN /\ crosshairTime' = None
            /\ crosshairX' = None
       ELSE /\ crosshairTime' = Some(formatCrosshairTime(param.time.value))
            /\ crosshairX' = Some(param.point[1])
    /\ UNCHANGED <<phase, containerRef, engines, hookRefs, hasData, observer, cleanup, last>>

\* ------------------------------------------------- environment
\* the container element is attached, detached or laid out at another width
SetContainer(c) ==
    /\ lastOp' = "other"
    /\ tick' = None
    /\ c # containerRef
    /\ containerRef' = c
    /\ calls' = <<>>
    /\ UNCHANGED <<phase, engines, hookRefs, hookState, observer, cleanup, last>>

\* the user pans/zooms the live chart (handleScroll is enabled at creation):
\* the visible range moves to one bar and price autoscale is switched off
UserPan(id, t) ==
    /\ lastOp' = "other"
    /\ tick' = None
    /\ id \in DOMAIN engines
    /\ engines[id].alive
    /\ {i \in DOMAIN engines[id].data : engines[id].data[i].time = t} # {}
    /\ engines' = [engines EXCEPT ![id].range = Some(<<t, t>>), ![id].autoScale = FALSE]
    /\ calls' = <<>>
    /\ UNCHANGED <<phase, containerRef, hookRefs, hookState, observer, cleanup, last>>

\* the live engine asks the time axis formatter for the label of one of the
\* times it displays
TickRequest(id, t, offset) ==
    /\ id \in DOMAIN engines
    /\ engines[id].alive
    /\ {i \in DOMAIN engines[id].data : engines[id].data[i].time = t} # {}
    /\ tick' = Some([time |-> t, label |-> tickMarkFormatter(t, offset)])
    /\ lastOp' = "other"
    /\ calls' = <<>>
    /\ UNCHANGED <<phase, containerRef, engines, hookRefs, hookState, observer, cleanup, last>>

Next ==
    \/ Mount
    \/ \E k \in DOMAIN SetupOrder : MountFails(k)
    \/ Unmount
    \/ \E candles \in CandleSeqs, symbol \in Symbols : Reconcile(candles, symbol)
    \/ ResetView
    \/ Resize
    \/ \E param \in MouseEventParams : PointerMove(param)
    \/ \E c \in {None} \cup {Some(w) : w \in Widths} : SetContainer(c)
    \/ \E id \in 1..MaxEngines, t \in Times : UserPan(id, t)
    \/ \E id \in 1..MaxEngines, t \in Times, offset \in UtcOffsets : TickRequest(id, t, offset)

Spec == Init /\ [][Next]_vars

\* ===================================================== properties
EngineAlive == \E id \in DOMAIN engines : engines[id].alive

\* the cleanup step of the mount effect has happened (or nothing was mounted yet)
Unmounted == phase \in {"idle", "discarded"}

\* the step is a reconciliation pass; a pass records its inputs in last'
PassCandles == last'.candles
PassSymbol == last'.symbol[1]
PassStep == last'.ran /\ Reconcile(PassCandles, PassSymbol)

\* number of automatic resets in a list of calls: a reset is one fitContent
\* followed by one price-scale autoscale
FitCalls(cs) == Cardinality({i \in DOMAIN cs : cs[i].op = "fitContent"})
ScaleCalls(cs) == Cardinality({i \in DOMAIN cs : cs[i].op = "priceScale.applyOptions"})

ViewportsUnchanged ==
    \A id \in DOMAIN engines : Viewport(engines'[id]) = Viewport(engines[id])

\* C1 (as claimed): in every reachable state hasData is true iff the last
\* supplied candle sequence was non-empty and an engine instance is alive.
\* The hook never clears hasData when the cleanup disposes the engine.
C1_HasDataIffNonEmptyAndAlive ==
    hasData <=> (last.candles # <<>> /\ EngineAlive)

\* C2 (as claimed): any reconciliation pass whose symbol differs from the
\* symbol of the pass before performs exactly one automatic reset, whatever
\* the candle sequences of the two passes are.
C2_ResetOnEverySymbolChange ==
    [][(PassStep /\ last.ran /\ last.symbol # Some(PassSymbol))
              => (FitCalls(calls') = 1 /\ ScaleCalls(calls') = 1)]_vars

\* C2 (amended): for two consecutive reconciliation passes with different
\* symbols that both ran with a live engine and a non-empty sequence, the
\* second pass performs exactly one automatic reset (one fitContent and one
\* autoscale), leaving the view fitted to the new data with autoscale on.
C2_ResetOnceWhenBothPassesPush ==
    [][(PassStep /\ last.pushed /\ last.symbol # Some(PassSymbol)
             /\ ShouldPush(PassCandles))
              => /\ FitCalls(calls') = 1
                 /\ ScaleCalls(calls') = 1
                 /\ Viewport(engines'[chartRef[1]]) = <<FitRange(Formatted(PassCandles)), TRUE>>]_vars

C2_Witness ==
    /\ last.pushed /\ last.prevPushed /\ last.symDiff
    /\ chartRef # None
    /\ calls = <<Call("setData", chartRef[1])>> \o ResetCalls(chartRef[1])

\* C3 (as claimed): a pass with the same symbol as the pass before and a
\* different candle sequence performs no automatic reset and leaves the
\* viewport unchanged, also when the pass before was empty or had no engine.
C3_NoResetOnSameSymbol ==
    [][(PassStep /\ last.ran /\ last.symbol = Some(PassSymbol)
             /\ last.candles # PassCandles)
              => (FitCalls(calls') = 0 /\ ScaleCalls(calls') = 0 /\ ViewportsUnchanged)]_vars

\* C3 (amended): when the pass before ran with a live engine and a non-empty
\* sequence, a pass with the same symbol and a different candle sequence
\* performs no automatic reset and leaves the viewport unchanged.
C3_NoResetOnSameSymbolAfterPush ==
    [][(PassStep /\ last.pushed /\ last.symbol = Some(PassSymbol)
             /\ last.candles # PassCandles)
              => (FitCalls(calls') = 0 /\ ScaleCalls(calls') = 0 /\ ViewportsUnchanged)]_vars

C3_Witness ==
    /\ last.pushed /\ last.prevPushed /\ ~last.symDiff /\ last.dataDiff
    /\ chartRef # None
    /\ calls = <<Call("setData", chartRef[1])>>
    /\ engines[chartRef[1]].data = Formatted(last.candles)
    /\ engines[chartRef[1]].range # FitRange(engines[chartRef[1]].data)

\* C4: a pass with an empty candle sequence sets hasData to false and makes
\* no engine call: series content and viewport of every engine are unchanged.
C4_EmptyPassTouchesNothing ==
    [][(PassStep /\ PassCandles = <<>>)
              => (hasData' = FALSE /\ calls' = <<>> /\ engines' = engines)]_vars

C4_Witness ==
    /\ last.ran /\ last.candles = <<>> /\ last.prevPushed
    /\ ~hasData
    /\ calls = <<>>
    /\ chartRef # None
    /\ engines[chartRef[1]].data # <<>>

\* C5: a mount with an absent container creates no engine and no observer
\* and records no handle; while that mount lasts every pass sets hasData to
\* false and makes no engine call, whatever candles and symbol it supplies.
C5_AbsentContainerMount ==
    [][/\ (Mount /\ containerRef = None)
            => /\ engines' = engines
               /\ observer' = None
               /\ cleanup' = None
               /\ chartRef' = None /\ seriesRef' = None
               /\ calls' = <<>>
       /\ (PassStep /\ cleanup = None)
                => (hasData' = FALSE /\ calls' = <<>> /\ engines' = engines)]_vars

C5_Witness ==
    /\ phase = "active" /\ cleanup = None /\ engines = <<>>
    /\ chartRef = None /\ observer = None
    /\ containerRef # None
    /\ last.ran /\ last.candles # <<>> /\ ~last.pushed
    /\ ~hasData

\* C6 (as claimed): no resource outlives the handle: with a null handle no
\* engine is alive and no observer is attached, and once the cleanup step has
\* happened the engine is disposed, the observer disconnected and both refs
\* are null.  A setup that throws after createChart returns no cleanup, so
\* the engine it created is never removed.
C6_NoResourceOutlivesHandle ==
    /\ chartRef = None => (~EngineAlive /\ observer = None)
    /\ Unmounted =>
          /\ chartRef = None /\ seriesRef = None
          /\ observer = None
          /\ ~EngineAlive

\* C7 (as claimed): after the cleanup step no pointer notification reaches
\* the crosshair handler, so crosshairTime and crosshairX do not change once
\* the hook is unmounted.  After a setup that threw at line 110 or 116 the
\* handler subscribed at line 97 is never released: no cleanup was returned.
C7_NoCrosshairChangeAfterUnmount ==
    [][Unmounted => (crosshairTime' = crosshairTime /\ crosshairX' = crosshairX)]_vars

\* C8: no engine operation is invoked on a disposed engine, remove is invoked
\* at most once per engine, and the handle and the observer only ever refer
\* to a live engine (the handle is nulled in the step that disposes it).
C8_NoUseAfterDispose ==
    /\ \A id \in DOMAIN engines :
          /\ ~engines[id].misuse
          /\ engines[id].removed <= 1
          /\ engines[id].alive <=> engines[id].removed = 0
    /\ chartRef # None => engines[chartRef[1]].alive
    /\ seriesRef # None => engines[seriesRef[1]].alive
    /\ observer # None => engines[observer[1]].alive

C8_Witness ==
    /\ Len(engines) = 2
    /\ engines[1].removed = 1 /\ ~engines[1].alive
    /\ engines[2].alive
    /\ calls = <<Call("applyOptions", 2)>>

\* C9: after every pointer notification both crosshair fields are null when
\* the notification has no point or a non-numeric time, and otherwise hold
\* the formatted time and the reported x; the two fields are never null and
\* non-null independently.
C9_CrosshairFollowsLastNotification ==
    [][/\ \A param \in MouseEventParams :
            PointerMove(param) =>
                IF param.point = None \/ param.time.type # "number"
                THEN crosshairTime' = None /\ crosshairX' = None
                ELSE /\ crosshairTime' = Some(formatCrosshairTime(param.time.value))
                     /\ crosshairX' = Some(param.point[1])
       /\ (crosshairTime' = None <=> crosshairX' = None)]_vars

C9_Witness ==
    /\ crosshairTime = Some(formatCrosshairTime(1700003600))
    /\ crosshairX = Some(0)

\* C10: resetView is idempotent: with a live engine it leaves the visible
\* range fitted to all loaded data and autoscale enabled, and a second call
\* right after the first changes nothing in the engine.
C10_ResetViewIdempotent ==
    [][(ResetView /\ chartRef # None)
          => /\ Viewport(engines'[chartRef[1]]) = <<FitRange(engines[chartRef[1]].data), TRUE>>
             /\ engines'[chartRef[1]].data = engines[chartRef[1]].data
             /\ (calls = ResetCalls(chartRef[1]) => engines' = engines)]_vars

C10_Witness ==
    /\ chartRef # None
    /\ calls = ResetCalls(chartRef[1])
    /\ engines[chartRef[1]].data # <<>>
    /\ Viewport(engines[chartRef[1]]) = <<FitRange(engines[chartRef[1]].data), TRUE>>

\* the day boundaries of a sequence: the first time, and every time whose
\* UTC day (floor(time / 86400)) differs from that of the candle before
BoundarySet(cs) ==
    {cs[i].time : i \in {j \in 1..Len(cs) :
        j = 1 \/ cs[j].time \div SecondsPerDay # cs[j - 1].time \div SecondsPerDay}}

TimesOf(cs) == {cs[i].time : i \in 1..Len(cs)}

\* C11: resetView with no live handle is a no-op: no engine call, and
\* hasData, the crosshair state, the recorded symbol, the boundary set and
\* every engine are left as they were.
C11_ResetViewWithoutHandleIsNoOp ==
    [][(lastOp' = "resetView" /\ chartRef = None)
          => /\ calls' = <<>>
             /\ engines' = engines
             /\ UNCHANGED <<hasData, crosshairTime, crosshairX, prevSymbolRef,
                            newDayTimestamps, chartRef, seriesRef>>]_vars

C11_Witness ==
    /\ lastOp = "resetView" /\ calls = <<>>
    /\ chartRef = None /\ phase = "idle" /\ Len(engines) >= 1
    /\ hasData /\ crosshairTime # None
    /\ prevSymbolRef # None /\ newDayTimestamps # {}

\* C12: after a pass that pushed an ascending sequence of length >= 1 the
\* boundary set has between 1 and (number of distinct UTC days) elements and
\* contains the first candle's time.
C12_BoundaryCountWithinDays ==
    last.pushed =>
        /\ Cardinality(newDayTimestamps) >= 1
        /\ Cardinality(newDayTimestamps)
              <= Cardinality({t \div SecondsPerDay : t \in TimesOf(last.candles)})
        /\ last.candles[1].time \in newDayTimestamps

C12_Witness ==
    /\ last.pushed
    /\ Len(last.candles) = 3
    /\ Cardinality(newDayTimestamps) = 2

\* C13: after a pass that pushed data the boundary set is exactly the first
\* candle's time plus the times whose UTC day differs from the candle
\* before; for [1700000000, 1700003600, 1700086400] it is
\* {1700000000, 1700086400}.
C13_BoundarySetExact ==
    last.pushed =>
        /\ newDayTimestamps = BoundarySet(last.candles)
        /\ (TimesOf(last.candles) = {1700000000, 1700003600, 1700086400}
               => newDayTimestamps = {1700000000, 1700086400})

C13_Witness ==
    /\ last.pushed
    /\ TimesOf(last.candles) = {1700000000, 1700003600, 1700086400}
    /\ newDayTimestamps = {1700000000, 1700086400}

\* C14: a tick label the engine obtains for a time of the last supplied
\* sequence is a month/day label if the time is a day boundary of that
\* sequence and a time-of-day label if it is not.
C14_TickLabelKindFollowsBoundary ==
    (tick # None /\ tick[1].time \in TimesOf(last.candles)) =>
        IF tick[1].time \in BoundarySet(last.candles)
        THEN tick[1].label.kind = "monthDay"
        ELSE tick[1].label.kind = "time"

C14_Witness ==
    /\ tick # None
    /\ tick[1].time \in TimesOf(last.candles)
    /\ tick[1].label.kind = "time"
    /\ last.pushed /\ last.prevPushed /\ last.dataDiff

\* C15: the cleanup step when the mount never completed (nothing was
\* registered) makes no engine or observer call and leaves the handle,
\* hasData, the crosshair state and the recorded symbol unchanged.
C15_UnmountWithoutMountIsNoOp ==
    [][(lastOp' = "unmount" /\ cleanup = None)
          => /\ calls' = <<>>
             /\ engines' = engines
             /\ UNCHANGED <<chartRef, seriesRef, observer, cleanup, hasData, crosshairTime,
                            crosshairX, prevSymbolRef, newDayTimestamps>>]_vars

C15_Witness ==
    /\ lastOp = "unmount" /\ calls = <<>>
    /\ phase = "idle"
    /\ engines = <<>> /\ chartRef = None /\ observer = None
    /\ last.ran

\* C16 (as claimed): after every pass the boundary set equals the boundary
\* set of the snapshot supplied to that pass, empty for an empty snapshot.
C16_BoundariesOfEverySnapshot ==
    [][PassStep => newDayTimestamps' = BoundarySet(PassCandles)]_vars

\* C16 (amended): after every pass that pushes data (live engine, non-empty
\* snapshot) the boundary set equals the boundary set of that snapshot, with
\* nothing left over from an earlier one; a pass with an empty snapshot or
\* without an engine leaves the set as it was.
C16_BoundariesOfEveryPushedSnapshot ==
    [][PassStep =>
          IF chartRef # None /\ seriesRef # None /\ PassCandles # <<>>
          THEN newDayTimestamps' = BoundarySet(PassCandles)
          ELSE newDayTimestamps' = newDayTimestamps]_vars

C16_Witness ==
    /\ last.pushed /\ last.prevPushed /\ last.dataDiff
    /\ TimesOf(last.candles) = {1700003600}
    /\ newDayTimestamps = {1700003600}

\* C17 (as claimed): a pass that pushes data leaves the series content equal
\* to the supplied sequence, and whenever hasData is true the series content
\* of the current engine equals the last supplied sequence.
C17_SeriesEqualsLastSupplied ==
    [][/\ (PassStep /\ chartRef # None /\ seriesRef # None /\ PassCandles # <<>>)
            => engines'[seriesRef[1]].data = PassCandles
       /\ hasData' =>
            /\ seriesRef' # None
            /\ engines'[seriesRef'[1]].data = last'.candles]_vars

\* C18: a resize notification sets the width of the observed engine to the
\* container's current width and changes nothing else: the height stays 300,
\* and series content, viewport, hasData, crosshair state and recorded symbol
\* are as before.
C18_ResizeChangesOnlyWidth ==
    [][/\ Resize =>
            /\ containerRef # None => engines'[observer[1]].width = containerRef[1]
            /\ \A id \in DOMAIN engines :
                  /\ engines'[id].data = engines[id].data
                  /\ Viewport(engines'[id]) = Viewport(engines[id])
                  /\ engines'[id].alive = engines[id].alive
                  /\ id # observer[1] => engines'[id] = engines[id]
            /\ UNCHANGED <<hasData, crosshairTime, crosshairX, prevSymbolRef, newDayTimestamps>>
       /\ \A id \in DOMAIN engines' : engines'[id].height = ChartHeight]_vars

C18_Witness ==
    /\ observer # None
    /\ calls = <<Call("applyOptions", observer[1])>>
    /\ containerRef # None
    /\ engines[observer[1]].width = containerRef[1]
    /\ engines[observer[1]].height = ChartHeight
    /\ engines[observer[1]].data # <<>>
    /\ ~engines[observer[1]].autoScale
    /\ hasData /\ crosshairTime # None

\* C19 (as claimed): acquisition and release are paired on every exit of the
\* mount effect: every live engine has the teardown registered that will
\* remove it, a handle is recorded only together with that teardown, and an
\* attached observer always has the teardown registered and a live engine.
\* A setup that throws after createChart leaves a live engine (and, from line
\* 110 on, a recorded handle) with no teardown.
C19_ObserverAlwaysPaired ==
    /\ \A id \in DOMAIN engines : engines[id].alive => cleanup = Some(id)
    /\ observer # None =>
          /\ cleanup = observer
          /\ chartRef = observer
          /\ engines[observer[1]].alive
    /\ cleanup = None => (observer = None /\ chartRef = None /\ seriesRef = None)

\* C20 (as claimed): the first pass that pushes data into a freshly created
\* engine always performs a view reset, also after an unmount and a remount
\* with the same symbol.  The cleanup never clears the recorded symbol.
C20_FirstPushAlwaysResets ==
    [][(PassStep /\ chartRef # None /\ seriesRef # None /\ PassCandles # <<>>
          /\ engines[chartRef[1]].data = <<>>)
          => (FitCalls(calls') = 1 /\ ScaleCalls(calls') = 1)]_vars

====
